---- MODULE Spec2Model ----
(***************************************************************************)
(* A model of containers.c: the arena allocator, the generic growable      *)
(* array and the arena-backed strings, over an explicit heap.              *)
(*                                                                         *)
(* size_t is modelled with SizeBits bits: every size_t expression of the   *)
(* source is reduced modulo SIZE_MOD.  The heap is a sequence of blocks;   *)
(* a pointer is a block id with a byte offset, block id 0 is NULL.         *)
(***************************************************************************)
EXTENDS Integers, Sequences, FiniteSets, TLC

\* ------------------------------------------------------------------ bounds
SizeBits == 7                 \* width of size_t in the model
MaxBlocks == 2                \* heap blocks the system allocator ever hands out
MaxDestroys == 2              \* arena_destroy calls made on one handle
MaxStrs == 2                  \* Str values the caller keeps
MaxIssued == 3                \* allocations the string program makes from its arena
MaxElems == 3                 \* elements of the arrays whose contents are followed
MaxCmpLen == 2                \* length of the strings that are compared

SIZE_MOD == 2 ^ SizeBits
PTRDIFF_MAX == (SIZE_MOD \div 2) - 1     \* no object is larger than this

\* ------------------------------------------------------- program constants
ARENA_DEFAULT_SIZE == 64 * 1024
ARENA_MAGIC_ALIVE == "ABCDEF01"
ARENA_MAGIC_DEAD == "DEADBEEF"
MAGIC_OTHER == "OTHER"        \* any other bit pattern of the magic field
MaxAlign == 16                \* alignof(max_align_t)
POISON == 222                 \* 0xDE
SizeofT == 4                  \* sizeof(int), the T of DynArray_int
UNINIT == -1                  \* a byte never written

\* ---------------------------------------------------------------- inputs
\* ARENA_DEFAULT_SIZE does not fit the model's size_t: no caller passes 0
InitSizes == {1, 16, 48}
ElemSizes == {1, 2, 4}
InitCaps == {0, 3, 8, 12, (SIZE_MOD \div 4) + 1, (SIZE_MOD \div 2) + 2}
Indexes == {0, 1, 8}
DataElemSizes == {1, 4}
DataCaps == {0, 2, SIZE_MOD \div 4}
Values == {1, 2}
CStrings == {<<>>, <<1>>, <<2, 1>>}
AllocSizes == {0, 1, 10, 16, 17, SIZE_MOD - 32, SIZE_MOD - 16, SIZE_MOD - 1}
GarbageSizes == {16}
Starts == {0, 1, 2}
Lens == {0, 1, 2, SIZE_MOD - 1}
CopyLens == {0, 1, 2}
CmpBytes == {1, 200}

VARIABLES
    debug,      \* CONTAINERS_DEBUG of the build: 0 or 1
    aborted,    \* abort() has been called
    h,          \* the caller's Arena pointer: "NULL" or "H"
    hfrees,     \* number of times the record H was handed to free() (2: more than once)
    arena,      \* the fields of record H as last stored
    heap,       \* heap[b]: block b, [frees, size, bytes]
    ndestroy,   \* arena_destroy calls made on H
    arr,        \* the caller's DynArray struct
    tarr,       \* the caller's DynArray_int struct
    strs,       \* the Str values the caller keeps from str_create
    ret         \* the last call: its name, arguments, branch taken and result,
                \* and whether the call before it grew or shrank a buffer

vars == <<debug, aborted, h, hfrees, arena, heap, ndestroy, arr, tarr, strs, ret>>

\* ------------------------------------------------------------------ heap
Min(a, b) == IF a < b THEN a ELSE b

NULLP == [blk |-> 0, off |-> 0]
Ptr(b, o) == [blk |-> b, off |-> o]

NewBlock(n) == [frees |-> 0, size |-> n, bytes |-> [o \in 0..(n - 1) |-> UNINIT]]

IsLive(hp, b) == b \in 1..Len(hp) /\ hp[b].frees = 0

\* free(b): free(NULL) does nothing; what a released block held is gone
Release(hp, b) ==
    IF b \in 1..Len(hp)
    THEN [hp EXCEPT ![b] = [frees |-> Min(hp[b].frees + 1, 2), size |-> 0,
                            bytes |-> [o \in {} |-> UNINIT]]]
    ELSE hp

\* the block contents after a resize to n bytes
Resized(blk, n) ==
    [frees |-> 0, size |-> n,
     bytes |-> [o \in 0..(n - 1) |-> IF o < blk.size THEN blk.bytes[o] ELSE UNINIT]]

\* malloc(n): NULL, or a fresh block
MallocOutcomes(hp, n) ==
    {[heap |-> hp, ptr |-> 0]}
    \cup (IF n <= PTRDIFF_MAX /\ Len(hp) < MaxBlocks
          THEN {[heap |-> Append(hp, NewBlock(n)), ptr |-> Len(hp) + 1]}
          ELSE {})

\* realloc(b, n), b not NULL: NULL with b untouched; for n = 0 also NULL with b
\* released; the block resized in place; or a fresh block with the old one
\* released.  A b that is not a live block is undefined behaviour: the call
\* fails or releases b once more.
ReallocOutcomes(hp, b, n) ==
    IF ~IsLive(hp, b)
    THEN {[heap |-> hp, ptr |-> 0], [heap |-> Release(hp, b), ptr |-> 0]}
    ELSE {[heap |-> hp, ptr |-> 0]}
         \cup (IF n = 0 THEN {[heap |-> Release(hp, b), ptr |-> 0]} ELSE {})
         \cup (IF n <= PTRDIFF_MAX
               THEN {[heap |-> [hp EXCEPT ![b] = Resized(hp[b], n)], ptr |-> b]}
               ELSE {})
         \cup (IF n <= PTRDIFF_MAX /\ Len(hp) < MaxBlocks
               THEN {[heap |-> Append(Release(hp, b), Resized(hp[b], n)),
                      ptr |-> Len(hp) + 1]}
               ELSE {})

\* ----------------------------------------------------------------- arena
Magics == {ARENA_MAGIC_ALIVE, ARENA_MAGIC_DEAD, MAGIC_OTHER}

ArenaRec(m, p, s, o) == [magic |-> m, memory |-> p, size |-> s, offset |-> o]

\* what a read of the released record H can yield
Garbage ==
    {ArenaRec(m, p, s, o) : m \in Magics, p \in 0..Len(heap),
                            s \in GarbageSizes, o \in {0}}

\* the fields an operation reads through the handle
View == IF hfrees = 0 THEN {arena} ELSE Garbage

Ret(op, args, path, ptr, len, reallocs) ==
    [op |-> op, args |-> args, path |-> path, ptr |-> ptr, len |-> len,
     reallocs |-> reallocs, uaf |-> (h = "H" /\ hfrees > 0), prev |-> IF ret.path \in {"grown", "shrunk"} THEN ret.path ELSE "none"]

\* size_t aligned_size = (size + alignof(max_align_t) - 1) & ~(alignof(max_align_t) - 1)
AlignUp(size) ==
    LET s == (size + MaxAlign - 1) % SIZE_MOD IN s - (s % MaxAlign)

\* arena->offset + aligned_size > arena->size
NeedsGrow(a, aligned) == (a.offset + aligned) % SIZE_MOD > a.size

\* new_size: double, or exactly to fit
NewSize(a, aligned) ==
    LET dbl == (a.size * 2) % SIZE_MOD
        fit == (a.offset + aligned) % SIZE_MOD
    IN IF dbl < fit THEN fit ELSE dbl

\* a slip that commits the doubled size although realloc refused
GrowRefused_SizeCommitted(a) == [a EXCEPT !.size = (a.size * 2) % SIZE_MOD]

\* the record after realloc refused the growth
GrowRefused(a) == a

\* the record after the growth and the bump of the cursor
Bumped(a, mem, sz, aligned) ==
    [a EXCEPT !.memory = mem, !.size = sz,
              !.offset = (a.offset + aligned) % SIZE_MOD]

\* The outcomes of arena_alloc reading record a over heap hp:
\* [rec, heap, path, ptr, reallocs]
ArenaAllocOutcomes(a, hp, size) ==
    IF a.magic = ARENA_MAGIC_DEAD
    THEN {[rec |-> a, heap |-> hp, path |-> "dead", ptr |-> NULLP, reallocs |-> 0]}
    ELSE IF a.magic # ARENA_MAGIC_ALIVE \/ a.memory = 0
    THEN {[rec |-> a, heap |-> hp, path |-> "invalid", ptr |-> NULLP, reallocs |-> 0]}
    ELSE LET aligned == AlignUp(size) IN
         IF NeedsGrow(a, aligned)
         THEN {IF r.ptr = 0
               THEN [rec |-> GrowRefused(a), heap |-> r.heap, path |-> "grow_refused",
                     ptr |-> NULLP, reallocs |-> 1]
               ELSE [rec |-> Bumped(a, r.ptr, NewSize(a, aligned), aligned),
                     heap |-> r.heap, path |-> "grown",
                     ptr |-> Ptr(r.ptr, a.offset), reallocs |-> 1]
               : r \in ReallocOutcomes(hp, a.memory, NewSize(a, aligned))}
         ELSE {[rec |-> Bumped(a, a.memory, a.size, aligned), heap |-> hp,
                path |-> "fits", ptr |-> Ptr(a.memory, a.offset), reallocs |-> 0]}

arena_create(initial_size) ==
    /\ ~aborted
    /\ h = "NULL"
    /\ LET isz == IF initial_size = 0 THEN ARENA_DEFAULT_SIZE ELSE initial_size IN
       \E recOk \in BOOLEAN : \E m \in MallocOutcomes(heap, isz) :
          IF recOk /\ m.ptr # 0
          THEN /\ h' = "H"
               /\ arena' = ArenaRec(ARENA_MAGIC_ALIVE, m.ptr, isz, 0)
               /\ heap' = m.heap
               /\ ret' = Ret("arena_create", <<initial_size>>, "ok", Ptr(m.ptr, 0), 0, 0)
          ELSE /\ UNCHANGED <<h, arena, heap>>
               /\ ret' = Ret("arena_create", <<initial_size>>, "nomem", NULLP, 0, 0)
    /\ UNCHANGED <<tarr, debug, aborted, hfrees, ndestroy, arr, strs>>

arena_alloc(size) ==
    /\ ~aborted
    /\ IF h = "NULL"
       THEN /\ ret' = Ret("arena_alloc", <<size>>, "null", NULLP, 0, 0)
            /\ UNCHANGED <<aborted, arena, heap>>
       ELSE \E a \in View : \E o \in ArenaAllocOutcomes(a, heap, size) :
            /\ aborted' = (o.path = "dead" /\ debug = 1)
            /\ arena' = IF hfrees = 0 THEN o.rec ELSE arena
            /\ heap' = o.heap
            /\ ret' = Ret("arena_alloc", <<size>>,
                          IF o.path = "dead" /\ debug = 1 THEN "abort" ELSE o.path,
                          o.ptr, 0, o.reallocs)
    /\ UNCHANGED <<tarr, debug, h, hfrees, ndestroy, arr, strs>>

\* arena && arena->magic == ARENA_MAGIC_ALIVE && arena->memory
IsValid(a) == a.magic = ARENA_MAGIC_ALIVE /\ a.memory # 0

arena_is_valid ==
    /\ ~aborted
    /\ IF h = "NULL"
       THEN ret' = Ret("arena_is_valid", <<>>, "false", NULLP, 0, 0)
       ELSE \E a \in View :
            ret' = Ret("arena_is_valid", <<>>,
                       IF IsValid(a) THEN "true" ELSE "false", NULLP, 0, 0)
    /\ UNCHANGED <<tarr, debug, aborted, h, hfrees, arena, heap, ndestroy, arr, strs>>

\* memset(arena->memory, 0xDE, arena->size) on a live block
Poisoned(hp, b, n) ==
    IF IsLive(hp, b)
    THEN [hp EXCEPT ![b].bytes = [o \in DOMAIN hp[b].bytes |->
                                     IF o < n THEN POISON ELSE hp[b].bytes[o]]]
    ELSE hp

arena_destroy ==
    /\ ~aborted
    /\ ndestroy < MaxDestroys
    /\ IF h = "NULL"
       THEN /\ ret' = Ret("arena_destroy", <<>>, "null", NULLP, 0, 0)
            /\ UNCHANGED <<hfrees, arena, heap, ndestroy>>
       ELSE /\ ndestroy' = ndestroy + 1
            /\ \E a \in View :
               IF a.magic = ARENA_MAGIC_DEAD
               THEN /\ ret' = Ret("arena_destroy", <<>>, "double", NULLP, 0, 0)
                    /\ UNCHANGED <<hfrees, arena, heap>>
               ELSE /\ heap' = Release(IF debug = 1 /\ a.memory # 0
                                       THEN Poisoned(heap, a.memory, a.size)
                                       ELSE heap, a.memory)
                    /\ arena' = IF hfrees = 0
                                THEN ArenaRec(ARENA_MAGIC_DEAD, 0, 0, 0)
                                ELSE arena
                    /\ hfrees' = Min(hfrees + 1, 2)
                    /\ ret' = Ret("arena_destroy", <<>>,
                                  IF a.magic = ARENA_MAGIC_ALIVE THEN "released"
                                  ELSE "corrupted", NULLP, 0, 0)
    /\ UNCHANGED <<tarr, debug, aborted, h, arr, strs>>

\* ------------------------------------------------------------- DynArray
DynArr(d, n, c, e) == [data |-> d, count |-> n, capacity |-> c, element_size |-> e]

ZeroArr == DynArr(0, 0, 0, 0)

\* (char *)arr->data + index * arr->element_size
SlotPtr(a, index) == Ptr(a.data, (index * a.element_size) % SIZE_MOD)

\* the slot lies inside a live block
SlotValid(hp, p, es) == IsLive(hp, p.blk) /\ p.off + es <= hp[p.blk].size

\* what a read of the first byte of the slot yields
Deref(hp, p, es) == IF SlotValid(hp, p, es) /\ es > 0 THEN hp[p.blk].bytes[p.off] ELSE UNINIT

dynarr_create(element_size, initial_capacity) ==
    /\ ~aborted
    /\ arr.data = 0
    /\ LET cap == IF initial_capacity = 0 THEN 8 ELSE initial_capacity IN
       \E m \in MallocOutcomes(heap, (element_size * cap) % SIZE_MOD) :
          /\ heap' = m.heap
          /\ arr' = IF m.ptr # 0 THEN DynArr(m.ptr, 0, cap, element_size) ELSE ZeroArr
          /\ ret' = Ret("dynarr_create", <<element_size, initial_capacity>>,
                        IF m.ptr # 0 THEN "ok" ELSE "nomem", Ptr(m.ptr, 0), 0, 0)
    /\ UNCHANGED <<tarr, debug, aborted, h, hfrees, arena, ndestroy, strs>>

\* arr->count >= arr->capacity
PushGrows(a) == a.count >= a.capacity

\* size_t new_capacity = arr->capacity << 1
Doubled(a) == (a.capacity * 2) % SIZE_MOD

\* the struct after a push, with the buffer and capacity the growth step left
Pushed(a, d, c) == [a EXCEPT !.data = d, !.capacity = c, !.count = (a.count + 1) % SIZE_MOD]

dynarr_push ==
    /\ ~aborted
    /\ IF arr.data = 0
       THEN /\ ret' = Ret("dynarr_push", <<>>, "null", NULLP, 0, 0)
            /\ UNCHANGED <<arr, heap>>
       ELSE IF PushGrows(arr)
       THEN \E r \in ReallocOutcomes(heap, arr.data,
                                     (arr.element_size * Doubled(arr)) % SIZE_MOD) :
            /\ heap' = r.heap
            /\ IF r.ptr = 0
               THEN /\ arr' = arr
                    /\ ret' = Ret("dynarr_push", <<>>, "grow_refused", NULLP, 0, 1)
               ELSE /\ arr' = Pushed(arr, r.ptr, Doubled(arr))
                    /\ ret' = Ret("dynarr_push", <<>>, "grown",
                                  SlotPtr([arr EXCEPT !.data = r.ptr], arr.count), 0, 1)
       ELSE /\ arr' = Pushed(arr, arr.data, arr.capacity)
            /\ heap' = heap
            /\ ret' = Ret("dynarr_push", <<>>, "fits", SlotPtr(arr, arr.count), 0, 0)
    /\ UNCHANGED <<tarr, debug, aborted, h, hfrees, arena, ndestroy, strs>>

dynarr_get(index) ==
    /\ ~aborted
    /\ IF arr.data = 0
       THEN /\ ret' = Ret("dynarr_get", <<index>>, "null", NULLP, 0, 0)
            /\ aborted' = aborted
       ELSE IF debug = 1 /\ index >= arr.count
       THEN /\ ret' = Ret("dynarr_get", <<index>>, "abort", NULLP, 0, 0)
            /\ aborted' = TRUE
       ELSE /\ ret' = IF index < arr.count
                      THEN Ret("dynarr_get", <<index>>, "ok", SlotPtr(arr, index), 0, 0)
                      ELSE Ret("dynarr_get", <<index>>, "range", NULLP, 0, 0)
            /\ aborted' = aborted
    /\ UNCHANGED <<tarr, debug, h, hfrees, arena, heap, ndestroy, arr, strs>>

dynarr_get_unchecked(index) ==
    /\ ~aborted
    /\ ret' = Ret("dynarr_get_unchecked", <<index>>, "ok", SlotPtr(arr, index), 0, 0)
    /\ UNCHANGED <<tarr, debug, aborted, h, hfrees, arena, heap, ndestroy, arr, strs>>

\* arr && arr->count > 0 ? dynarr_get_unchecked(arr, arr->count - 1) : NULL
Last(a) == IF a.count > 0 THEN SlotPtr(a, a.count - 1) ELSE NULLP

dynarr_last ==
    /\ ~aborted
    /\ ret' = Ret("dynarr_last", <<>>, IF arr.count > 0 THEN "ok" ELSE "empty",
                  Last(arr), 0, 0)
    /\ UNCHANGED <<tarr, debug, aborted, h, hfrees, arena, heap, ndestroy, arr, strs>>

\* a slip that shrinks at half occupancy
PopShrinks_AtHalf(n, c) == n < (c \div 2) /\ c > 8

\* a slip that shrinks at half occupancy, the occupancy a doubling leaves, included
PopShrinks_AtHalfInclusive(n, c) == n <= (c \div 2) /\ c > 8

\* arr->count < arr->capacity >> 2 && arr->capacity > 8, count already decremented
PopShrinks(n, c) == n < (c \div 4) /\ c > 8

\* size_t new_capacity = arr->capacity >> 1
Halved(c) == c \div 2

dynarr_pop ==
    /\ ~aborted
    /\ IF arr.count = 0
       THEN /\ ret' = Ret("dynarr_pop", <<>>, "empty", NULLP, 0, 0)
            /\ UNCHANGED <<arr, heap>>
       ELSE LET n == arr.count - 1 IN
            IF PopShrinks(n, arr.capacity)
            THEN \E r \in ReallocOutcomes(heap, arr.data,
                             (arr.element_size * Halved(arr.capacity)) % SIZE_MOD) :
                 /\ heap' = r.heap
                 /\ IF r.ptr # 0
                    THEN /\ arr' = [arr EXCEPT !.count = n, !.data = r.ptr,
                                               !.capacity = Halved(arr.capacity)]
                         /\ ret' = Ret("dynarr_pop", <<>>, "shrunk", NULLP, 0, 1)
                    ELSE /\ arr' = [arr EXCEPT !.count = n]
                         /\ ret' = Ret("dynarr_pop", <<>>, "shrink_refused", NULLP, 0, 1)
            ELSE /\ arr' = [arr EXCEPT !.count = n]
                 /\ heap' = heap
                 /\ ret' = Ret("dynarr_pop", <<>>, "kept", NULLP, 0, 0)
    /\ UNCHANGED <<tarr, debug, aborted, h, hfrees, arena, ndestroy, strs>>

\* a slip that also resets the capacity to the default
Cleared_CapacityReset(a) == [a EXCEPT !.count = 0, !.capacity = 8]

\* arr->count = 0
Cleared(a) == [a EXCEPT !.count = 0]

dynarr_clear ==
    /\ ~aborted
    /\ arr' = Cleared(arr)
    /\ ret' = Ret("dynarr_clear", <<>>, "ok", NULLP, 0, 0)
    /\ UNCHANGED <<tarr, debug, aborted, h, hfrees, arena, heap, ndestroy, strs>>

dynarr_destroy ==
    /\ ~aborted
    /\ heap' = Release(heap, arr.data)
    /\ arr' = ZeroArr
    /\ ret' = Ret("dynarr_destroy", <<>>, "ok", NULLP, 0, 0)
    /\ UNCHANGED <<tarr, debug, aborted, h, hfrees, arena, ndestroy, strs>>

\* The caller stores v through the slot the last push returned:
\* *dynarr_push(&arr) = v.  A slot outside the live buffer is not stored.
StoreSlot(hp, p, es, v) ==
    IF SlotValid(hp, p, es)
    THEN [hp EXCEPT ![p.blk].bytes =
             [o \in DOMAIN hp[p.blk].bytes |->
                 IF o >= p.off /\ o < p.off + es THEN v ELSE hp[p.blk].bytes[o]]]
    ELSE hp

push_store(v) ==
    /\ ~aborted
    /\ ret.op = "dynarr_push"
    /\ ret.ptr # NULLP
    /\ heap' = StoreSlot(heap, ret.ptr, arr.element_size, v)
    /\ ret' = Ret("push_store", <<v>>,
                  IF SlotValid(heap, ret.ptr, arr.element_size) THEN "ok" ELSE "wild",
                  ret.ptr, 0, 0)
    /\ UNCHANGED <<tarr, debug, aborted, h, hfrees, arena, ndestroy, arr, strs>>

\* ------------------------------------------- DynArray_T, T of SizeofT bytes
TArr(d, n, c) == [data |-> d, count |-> n, capacity |-> c]

ZeroTArr == TArr(0, 0, 0)

\* &arr->data[index]
TSlotPtr(a, index) == Ptr(a.data, (index * SizeofT) % SIZE_MOD)

\* realloc(arr->data, n): realloc of a null pointer is malloc
TReallocOutcomes(hp, d, n) ==
    IF d = 0 THEN MallocOutcomes(hp, n) ELSE ReallocOutcomes(hp, d, n)

dynarr_create_T(capacity) ==
    /\ ~aborted
    /\ tarr.data = 0
    /\ LET cap == IF capacity = 0 THEN 8 ELSE capacity IN
       \E m \in MallocOutcomes(heap, (SizeofT * cap) % SIZE_MOD) :
          /\ heap' = m.heap
          /\ tarr' = IF m.ptr # 0 THEN TArr(m.ptr, 0, cap) ELSE ZeroTArr
          /\ ret' = Ret("dynarr_create_T", <<capacity>>,
                        IF m.ptr # 0 THEN "ok" ELSE "nomem", Ptr(m.ptr, 0), 0, 0)
    /\ UNCHANGED <<arr, debug, aborted, h, hfrees, arena, ndestroy, strs>>

\* arr->count >= arr->capacity
TPushGrows(a) == a.count >= a.capacity

\* size_t new_capacity = arr->capacity << 1
TDoubled(a) == (a.capacity * 2) % SIZE_MOD

\* the struct after &arr->data[arr->count++]
TPushed(a, d, c) == [a EXCEPT !.data = d, !.capacity = c, !.count = (a.count + 1) % SIZE_MOD]

dynarr_push_T ==
    /\ ~aborted
    /\ IF TPushGrows(tarr)
       THEN \E r \in TReallocOutcomes(heap, tarr.data, (SizeofT * TDoubled(tarr)) % SIZE_MOD) :
            /\ heap' = r.heap
            /\ IF r.ptr = 0
               THEN /\ tarr' = tarr
                    /\ ret' = Ret("dynarr_push_T", <<>>, "grow_refused", NULLP, 0, 1)
               ELSE /\ tarr' = TPushed(tarr, r.ptr, TDoubled(tarr))
                    /\ ret' = Ret("dynarr_push_T", <<>>, "grown",
                                  TSlotPtr([tarr EXCEPT !.data = r.ptr], tarr.count), 0, 1)
       ELSE /\ tarr' = TPushed(tarr, tarr.data, tarr.capacity)
            /\ heap' = heap
            /\ ret' = Ret("dynarr_push_T", <<>>, "fits", TSlotPtr(tarr, tarr.count), 0, 0)
    /\ UNCHANGED <<arr, debug, aborted, h, hfrees, arena, ndestroy, strs>>

\* a slip that shrinks at half occupancy, the occupancy a doubling leaves, included
TPopShrinks_AtHalfInclusive(n, c) == n <= (c \div 2) /\ c > 8

\* arr->count < arr->capacity >> 2 && arr->capacity > 8, count already decremented
TPopShrinks(n, c) == n < (c \div 4) /\ c > 8

\* size_t new_capacity = arr->capacity >> 1
THalved(c) == c \div 2

dynarr_pop_T ==
    /\ ~aborted
    /\ IF tarr.count = 0
       THEN /\ ret' = Ret("dynarr_pop_T", <<>>, "empty", NULLP, 0, 0)
            /\ UNCHANGED <<tarr, heap>>
       ELSE LET n == tarr.count - 1 IN
            IF TPopShrinks(n, tarr.capacity)
            THEN \E r \in TReallocOutcomes(heap, tarr.data,
                             (SizeofT * THalved(tarr.capacity)) % SIZE_MOD) :
                 /\ heap' = r.heap
                 /\ IF r.ptr # 0
                    THEN /\ tarr' = [tarr EXCEPT !.count = n, !.data = r.ptr,
                                                 !.capacity = THalved(tarr.capacity)]
                         /\ ret' = Ret("dynarr_pop_T", <<>>, "shrunk", NULLP, 0, 1)
                    ELSE /\ tarr' = [tarr EXCEPT !.count = n]
                         /\ ret' = Ret("dynarr_pop_T", <<>>, "shrink_refused", NULLP, 0, 1)
            ELSE /\ tarr' = [tarr EXCEPT !.count = n]
                 /\ heap' = heap
                 /\ ret' = Ret("dynarr_pop_T", <<>>, "kept", NULLP, 0, 0)
    /\ UNCHANGED <<arr, debug, aborted, h, hfrees, arena, ndestroy, strs>>

dynarr_clear_T ==
    /\ ~aborted
    /\ tarr' = [tarr EXCEPT !.count = 0]
    /\ ret' = Ret("dynarr_clear_T", <<>>, "ok", NULLP, 0, 0)
    /\ UNCHANGED <<arr, debug, aborted, h, hfrees, arena, heap, ndestroy, strs>>

\* ------------------------------------------------------------------ Str
Str(p, n) == [data |-> p, len |-> n]

ZeroStr == Str(NULLP, 0)

\* the n bytes at p; a byte outside a live block is indeterminate
ReadBytes(hp, p, n) ==
    [i \in 1..n |-> IF IsLive(hp, p.blk) /\ p.off + i - 1 < hp[p.blk].size
                    THEN hp[p.blk].bytes[p.off + i - 1] ELSE UNINIT]

\* the bytes of sq stored from p on; a store outside a live block is lost
WriteBytes(hp, p, sq) ==
    IF IsLive(hp, p.blk)
    THEN [hp EXCEPT ![p.blk].bytes =
             [o \in DOMAIN hp[p.blk].bytes |->
                 IF o >= p.off /\ o < p.off + Len(sq)
                 THEN sq[o - p.off + 1] ELSE hp[p.blk].bytes[o]]]
    ELSE hp

\* the string p, n is readable with its terminator
StrValid(hp, x) ==
    /\ IsLive(hp, x.data.blk)
    /\ x.data.off + x.len < hp[x.data.blk].size

StrOut(rec, hp, path, str) == [rec |-> rec, heap |-> hp, path |-> path, str |-> str]

\* Str str_create(Arena *arena, const char *cstr), cstr not NULL, on record a
StrCreateOutcomes(a, hp, cstr) ==
    IF ~IsValid(a)
    THEN {StrOut(a, hp, "invalid", ZeroStr)}
    ELSE {IF o.ptr = NULLP
          THEN StrOut(o.rec, o.heap, "nomem", ZeroStr)
          ELSE StrOut(o.rec, WriteBytes(o.heap, o.ptr, cstr \o <<0>>), "ok",
                      Str(o.ptr, Len(cstr)))
          : o \in ArenaAllocOutcomes(a, hp, (Len(cstr) + 1) % SIZE_MOD)}

\* Str str_copy(Arena *arena, const char *data, size_t len) on record a: the
\* source is read after the allocation
StrCopyOutcomes(a, hp, data, len) ==
    IF data = NULLP \/ len = 0 \/ ~IsValid(a)
    THEN {StrOut(a, hp, "zero", ZeroStr)}
    ELSE {IF o.ptr = NULLP
          THEN StrOut(o.rec, o.heap, "nomem", ZeroStr)
          ELSE StrOut(o.rec,
                      WriteBytes(o.heap, o.ptr, ReadBytes(o.heap, data, len) \o <<0>>),
                      "ok", Str(o.ptr, len))
          : o \in ArenaAllocOutcomes(a, hp, (len + 1) % SIZE_MOD)}

\* Str str_concat(Arena *arena, Str a, Str b) on record a
StrConcatOutcomes(a, hp, x, y) ==
    IF ~IsValid(a)
    THEN {StrOut(a, hp, "invalid", ZeroStr)}
    ELSE IF x.len = 0 THEN StrCopyOutcomes(a, hp, y.data, y.len)
    ELSE IF y.len = 0 THEN StrCopyOutcomes(a, hp, x.data, x.len)
    ELSE LET total_len == (x.len + y.len) % SIZE_MOD
             \* memcpy(data, a.data, a.len)
             First(o) == WriteBytes(o.heap, o.ptr, ReadBytes(o.heap, x.data, x.len))
             \* memcpy(data + a.len, b.data, b.len)
             Second(o) == WriteBytes(First(o), Ptr(o.ptr.blk, o.ptr.off + x.len),
                                     ReadBytes(First(o), y.data, y.len))
             \* data[total_len] = 0
             Third(o) == WriteBytes(Second(o), Ptr(o.ptr.blk, o.ptr.off + total_len), <<0>>)
         IN {IF o.ptr = NULLP
             THEN StrOut(o.rec, o.heap, "nomem", ZeroStr)
             ELSE StrOut(o.rec, Third(o), "ok", Str(o.ptr, total_len))
             : o \in ArenaAllocOutcomes(a, hp, (total_len + 1) % SIZE_MOD)}

\* the state change common to the string operations: out is one outcome
StrStep(op, args, out) ==
    /\ arena' = IF hfrees = 0 THEN out.rec ELSE arena
    /\ heap' = out.heap
    /\ ret' = Ret(op, args, out.path, out.str.data, out.str.len, 0)

str_create(isnull, cstr) ==
    /\ ~aborted
    /\ IF isnull \/ h = "NULL"
       THEN /\ ret' = Ret("str_create", <<isnull, cstr>>, "invalid", NULLP, 0, 0)
            /\ UNCHANGED <<arena, heap, strs>>
       ELSE \E a \in View : \E out \in StrCreateOutcomes(a, heap, cstr) :
            /\ StrStep("str_create", <<isnull, cstr>>, out)
            /\ strs' = IF out.path = "ok" /\ Len(strs) < MaxStrs
                       THEN Append(strs, out.str) ELSE strs
    /\ UNCHANGED <<tarr, debug, aborted, h, hfrees, ndestroy, arr>>

\* the operands are passed by value; args keeps them with the bytes they held
str_concat(x, y) ==
    /\ ~aborted
    /\ LET args == <<x, y, ReadBytes(heap, x.data, x.len), ReadBytes(heap, y.data, y.len),
                     StrValid(heap, x) /\ StrValid(heap, y)>> IN
       IF h = "NULL"
       THEN /\ ret' = Ret("str_concat", args, "invalid", NULLP, 0, 0)
            /\ UNCHANGED <<arena, heap>>
       ELSE \E a \in View : \E out \in StrConcatOutcomes(a, heap, x, y) :
            StrStep("str_concat", args, out)
    /\ UNCHANGED <<tarr, debug, aborted, h, hfrees, ndestroy, arr, strs>>

\* Str str_substr(Arena *arena, Str s, size_t start, size_t len) on record a:
\* the clamp tests start + len in size_t
StrSubstrOutcomes(a, hp, s, start, len) ==
    IF ~IsValid(a) \/ start >= s.len
    THEN {StrOut(a, hp, "invalid", ZeroStr)}
    ELSE LET n == IF (start + len) % SIZE_MOD > s.len THEN s.len - start ELSE len
         IN StrCopyOutcomes(a, hp, Ptr(s.data.blk, s.data.off + start), n)

\* the len bytes at data are readable
DataValid(hp, data, len) ==
    IsLive(hp, data.blk) /\ data.off + len <= hp[data.blk].size

\* str_copy(arena, x.data, len): args keeps the pointer, the length, the bytes
\* the pointer held and whether they were readable
str_copy(x, len) ==
    /\ ~aborted
    /\ LET args == <<x.data, len, ReadBytes(heap, x.data, len),
                     DataValid(heap, x.data, len)>> IN
       IF h = "NULL"
       THEN /\ ret' = Ret("str_copy", args, "zero", NULLP, 0, 0)
            /\ UNCHANGED <<arena, heap>>
       ELSE \E a \in View : \E out \in StrCopyOutcomes(a, heap, x.data, len) :
            StrStep("str_copy", args, out)
    /\ UNCHANGED <<tarr, debug, aborted, h, hfrees, ndestroy, arr, strs>>

\* str_substr(arena, s, start, len): args keeps s with the bytes it held
str_substr(s, start, len) ==
    /\ ~aborted
    /\ LET args == <<s, start, len, ReadBytes(heap, s.data, s.len), StrValid(heap, s)>> IN
       IF h = "NULL"
       THEN /\ ret' = Ret("str_substr", args, "invalid", NULLP, 0, 0)
            /\ UNCHANGED <<arena, heap>>
       ELSE \E a \in View : \E out \in StrSubstrOutcomes(a, heap, s, start, len) :
            StrStep("str_substr", args, out)
    /\ UNCHANGED <<tarr, debug, aborted, h, hfrees, ndestroy, arr, strs>>

\* memcmp(p, q, n) on the n bytes s at p and t at q: zero when they are equal,
\* otherwise the sign is that of the first differing pair of bytes, compared as
\* unsigned char; the magnitude is the implementation's.  Zero bytes compare equal.
MemcmpOutcomes(s, t) ==
    IF s = t
    THEN {0}
    ELSE LET i == CHOOSE k \in 1..Len(s) :
                      s[k] # t[k] /\ \A j \in 1..(k - 1) : s[j] = t[j]
         IN IF s[i] < t[i] THEN {-1, s[i] - t[i]} ELSE {1, s[i] - t[i]}

\* a slip that compares the bytes first and the lengths last
StrCmpOutcomes_BytesFirst(hp, a, b) ==
    LET n == Min(a.len, b.len)
        m == MemcmpOutcomes(ReadBytes(hp, a.data, n), ReadBytes(hp, b.data, n))
    IN IF m # {0} THEN m
       ELSE IF a.len = b.len THEN {0}
       ELSE {IF a.len < b.len THEN -1 ELSE 1}

\* int str_cmp(Str a, Str b): the values the call can return
StrCmpOutcomes(hp, a, b) ==
    IF a.len # b.len
    THEN {IF a.len < b.len THEN -1 ELSE 1}
    ELSE MemcmpOutcomes(ReadBytes(hp, a.data, a.len), ReadBytes(hp, b.data, a.len))

\* str_cmp(x, y): ret.len is the integer returned
str_cmp(x, y) ==
    /\ ~aborted
    /\ \E r \in StrCmpOutcomes(heap, x, y) :
          ret' = Ret("str_cmp", <<x, y>>, "ok", NULLP, r, 0)
    /\ UNCHANGED <<tarr, debug, aborted, h, hfrees, arena, heap, ndestroy, arr, strs>>

\* the Str values the caller can pass: those it keeps, and the zero string
Operands == {strs[i] : i \in 1..Len(strs)} \cup {ZeroStr}

\* ------------------------------------------------------ the arena program
Init ==
    /\ debug \in {0, 1}
    /\ aborted = FALSE
    /\ h = "NULL"
    /\ hfrees = 0
    /\ arena = ArenaRec(MAGIC_OTHER, 0, 0, 0)
    /\ heap = <<>>
    /\ ndestroy = 0
    /\ arr = ZeroArr
    /\ tarr = ZeroTArr
    /\ strs = <<>>
    /\ ret = [op |-> "start", args |-> <<>>, path |-> "", ptr |-> NULLP, len |-> 0,
              reallocs |-> 0, uaf |-> FALSE, prev |-> "none"]

Next ==
    \/ \E n \in InitSizes : arena_create(n)
    \/ \E n \in AllocSizes : arena_alloc(n)
    \/ arena_is_valid
    \/ arena_destroy

Spec == Init /\ [][Next]_vars

\* --------------------------------------------- the growable-array program
NextArr ==
    \/ \E e \in ElemSizes, c \in InitCaps : dynarr_create(e, c)
    \/ dynarr_push
    \/ dynarr_pop
    \/ dynarr_clear
    \/ \E i \in Indexes : dynarr_get(i)
    \/ \E i \in Indexes : dynarr_get_unchecked(i)
    \/ dynarr_last
    \/ dynarr_destroy

SpecArr == Init /\ [][NextArr]_vars

\* the same program with the caller filling each pushed slot, on short arrays
NextArrData ==
    \/ \E e \in DataElemSizes, c \in DataCaps : dynarr_create(e, c)
    \/ arr.count < MaxElems /\ dynarr_push
    \/ \E v \in Values : push_store(v)
    \/ dynarr_pop
    \/ dynarr_clear
    \/ \E i \in Indexes : dynarr_get(i)
    \/ dynarr_last
    \/ dynarr_destroy

SpecArrData == Init /\ [][NextArrData]_vars

\* ------------- the program that drives a DynArray and a DynArray_T alike
\* the generic call the caller made last has been repeated on the typed array
Mirrored ==
    ~(\/ ret.op = "dynarr_create" /\ ret.path = "ok"
      \/ ret.op \in {"dynarr_push", "dynarr_pop", "dynarr_clear"})

\* both arrays were created
Created == arr.data # 0 /\ tarr.data # 0

\* a reallocation refused
Refused == {"grow_refused", "shrink_refused"}

\* when both calls reallocate, realloc answers both alike
SameRealloc ==
    (ret.reallocs = 1 /\ ret'.reallocs = 1)
        => ((ret'.path \in Refused) = (ret.path \in Refused))

\* each call on the generic array of elements of SizeofT bytes is followed by
\* the same call on the typed array, with the same answer of the allocator
NextPair ==
    \/ Mirrored /\ \E c \in InitCaps : dynarr_create(SizeofT, c)
    \/ /\ ret.op = "dynarr_create" /\ ret.path = "ok"
       /\ dynarr_create_T(ret.args[2])
       /\ tarr'.data # 0
    \/ Mirrored /\ Created /\ dynarr_push
    \/ ret.op = "dynarr_push" /\ dynarr_push_T /\ SameRealloc
    \/ Mirrored /\ Created /\ dynarr_pop
    \/ ret.op = "dynarr_pop" /\ dynarr_pop_T /\ SameRealloc
    \/ Mirrored /\ Created /\ dynarr_clear
    \/ ret.op = "dynarr_clear" /\ dynarr_clear_T

SpecPair == Init /\ [][NextPair]_vars

\* ------------------------------------ the string program on a live arena
\* the caller stops making strings once the arena has issued MaxIssued regions
MayIssue == arena.offset < MaxIssued * MaxAlign

NextStr ==
    \/ \E n \in InitSizes : arena_create(n)
    \/ MayIssue /\ \E c \in CStrings, isnull \in BOOLEAN : str_create(isnull, c)
    \/ MayIssue /\ \E x \in Operands, y \in Operands : str_concat(x, y)
    \/ MayIssue /\ \E x \in Operands, n \in CopyLens : str_copy(x, n)
    \/ MayIssue /\ \E x \in Operands, i \in Starts, n \in Lens : str_substr(x, i, n)

SpecStr == Init /\ [][NextStr]_vars

\* ------------------------- the string program that destroys its arena
\* the handle is NULL or was destroyed
NotAlive == h = "NULL" \/ hfrees > 0

\* the caller makes strings, destroys the arena once and goes on using the handle
NextStrDead ==
    \/ \E n \in InitSizes : arena_create(n)
    \/ ndestroy = 0 /\ arena_destroy
    \/ MayIssue /\ \E c \in CStrings, isnull \in BOOLEAN : str_create(isnull, c)
    \/ NotAlive /\ \E x \in Operands, y \in Operands : str_concat(x, y)
    \/ NotAlive /\ \E x \in Operands, n \in CopyLens : str_copy(x, n)
    \/ NotAlive /\ \E x \in Operands, i \in Starts, n \in CopyLens : str_substr(x, i, n)

SpecStrDead == Init /\ [][NextStrDead]_vars

\* --------------------------------------------------- the comparing program
\* the byte strings of at most MaxCmpLen bytes
CmpStrings == UNION {[1..n -> CmpBytes] : n \in 0..MaxCmpLen}

\* cstr with its terminator, in the region arena_alloc rounds up for it
Padded(cstr) ==
    [o \in 0..(AlignUp(Len(cstr) + 1) - 1) |->
        IF o < Len(cstr) THEN cstr[o + 1] ELSE IF o = Len(cstr) THEN 0 ELSE UNINIT]

\* the region after str_create of c1, c2 and c3 in turn
Packed(c1, c2, c3) ==
    LET o2 == AlignUp(Len(c1) + 1)
        o3 == o2 + AlignUp(Len(c2) + 1)
    IN [o \in 0..(o3 + AlignUp(Len(c3) + 1) - 1) |->
           IF o < o2 THEN Padded(c1)[o]
           ELSE IF o < o3 THEN Padded(c2)[o - o2] ELSE Padded(c3)[o - o3]]

\* after arena_create and three str_create calls that the region had room for
InitCmp ==
    /\ debug \in {0, 1}
    /\ aborted = FALSE
    /\ h = "H"
    /\ hfrees = 0
    /\ ndestroy = 0
    /\ arr = ZeroArr
    /\ tarr = ZeroTArr
    /\ \E c1 \in CmpStrings, c2 \in CmpStrings, c3 \in CmpStrings :
          LET o2 == AlignUp(Len(c1) + 1)
              o3 == o2 + AlignUp(Len(c2) + 1)
              sz == o3 + AlignUp(Len(c3) + 1)
          IN /\ heap = <<[frees |-> 0, size |-> sz, bytes |-> Packed(c1, c2, c3)]>>
             /\ arena = ArenaRec(ARENA_MAGIC_ALIVE, 1, sz, sz)
             /\ strs = <<Str(Ptr(1, 0), Len(c1)), Str(Ptr(1, o2), Len(c2)),
                         Str(Ptr(1, o3), Len(c3))>>
    /\ ret = [op |-> "str_create", args |-> <<>>, path |-> "ok", ptr |-> strs[3].data,
              len |-> strs[3].len, reallocs |-> 0, uaf |-> FALSE, prev |-> "none"]

NextCmp == \E x \in Operands, y \in Operands : str_cmp(x, y)

SpecCmp == InitCmp /\ [][NextCmp]_vars

\* ================================================================ claims
LiveArena == h = "H" /\ hfrees = 0

\* C1: across every arena_alloc call on a live arena the cursor offset never
\* decreases, and 0 <= offset <= size holds after the call.
C1_OffsetMonotone ==
    [][(LiveArena /\ ret'.op = "arena_alloc")
         => (arena'.offset >= arena.offset /\ 0 <= arena'.offset
             /\ arena'.offset <= arena'.size)]_vars

\* C2: the second arena_destroy on a handle is a safe no-op: nothing is released
\* a second time and the call does not touch the record the first call released.
C2_DoubleDestroySafe ==
    (ret.op = "arena_destroy" /\ ndestroy = 2)
        => (/\ ~ret.uaf
            /\ ret.path = "double"
            /\ hfrees = 1
            /\ \A b \in 1..Len(heap) : heap[b].frees <= 1)

\* C3: after arena_destroy every arena_alloc on the handle is detected (abort in
\* the debug build, NULL and no state change otherwise) and arena_is_valid is false.
C3_UseAfterDestroyDetected ==
    [][(h = "H" /\ hfrees > 0)
         => (/\ ret'.op = "arena_alloc"
                  => IF debug = 1
                     THEN aborted' /\ ret'.path = "abort"
                     ELSE ret'.ptr = NULLP /\ ret'.path = "dead" /\ heap' = heap
                          /\ arena' = arena /\ hfrees' = hfrees
             /\ ret'.op = "arena_is_valid" => ret'.path = "false")]_vars

\* C4: count <= capacity after every operation on a successfully created array.
C4_CountWithinCapacity == arr.data # 0 => arr.count <= arr.capacity

\* C5: the capacity of a created array is never below the floor of 8.
C5_CapacityFloor == arr.data # 0 => arr.capacity >= 8

\* C6: a successful push returns the slot at index old count and adds one to
\* count, keeping the elements below it; once the caller has stored v in the slot,
\* get(count-1) and last() read v and the elements below are as before.
C6_PushThenGet ==
    [][/\ (ret'.op = "dynarr_push" /\ ret'.ptr # NULLP)
          => /\ arr'.count = arr.count + 1
             /\ ret'.ptr = SlotPtr(arr', arr.count)
             /\ SlotValid(heap', ret'.ptr, arr'.element_size)
             /\ \A i \in 0..(arr.count - 1) :
                   Deref(heap', SlotPtr(arr', i), arr'.element_size)
                     = Deref(heap, SlotPtr(arr, i), arr.element_size)
       /\ ret'.op = "push_store"
          => /\ Deref(heap', SlotPtr(arr', arr'.count - 1), arr'.element_size)
                  = ret'.args[1]
             /\ Deref(heap', Last(arr'), arr'.element_size) = ret'.args[1]
             /\ \A i \in 0..(arr.count - 2) :
                   Deref(heap', SlotPtr(arr', i), arr'.element_size)
                     = Deref(heap, SlotPtr(arr, i), arr.element_size)]_vars

\* C7 as stated: a pop of an empty array changes nothing; otherwise count drops
\* by one and the capacity is halved exactly when the new count is below a
\* quarter of the capacity and the capacity exceeds 8.
C7_PopHalvesExactlyWhen ==
    [][ret'.op = "dynarr_pop"
         => IF arr.count = 0
            THEN arr' = arr /\ heap' = heap
            ELSE /\ arr'.count = arr.count - 1
                 /\ arr'.capacity =
                      IF arr.count - 1 < arr.capacity \div 4 /\ arr.capacity > 8
                      THEN arr.capacity \div 2 ELSE arr.capacity]_vars

\* C7 amended: a pop of an empty array changes nothing; otherwise count drops by
\* one, the shrinking reallocation is attempted once exactly when the new count is
\* below capacity / 4 (rounded down) and the capacity exceeds 8, and the capacity
\* is halved exactly when that reallocation is attempted and succeeds.  A created
\* array asked for with capacity 0 has capacity 8, and a successful push at
\* count = capacity = 8 gives capacity 16.
C7_PopPolicy ==
    [][/\ ret'.op = "dynarr_pop"
          => IF arr.count = 0
             THEN arr' = arr /\ heap' = heap
             ELSE LET wanted == arr.count - 1 < arr.capacity \div 4 /\ arr.capacity > 8 IN
                  /\ arr'.count = arr.count - 1
                  /\ arr'.element_size = arr.element_size
                  /\ ret'.reallocs = (IF wanted THEN 1 ELSE 0)
                  /\ ret'.path \in {"shrunk", "shrink_refused", "kept"}
                  /\ (ret'.path = "shrunk") = (wanted /\ arr'.data # 0
                                               /\ IsLive(heap', arr'.data)
                                               /\ arr'.capacity = arr.capacity \div 2)
                  /\ ret'.path # "shrunk" => arr'.capacity = arr.capacity
                                             /\ arr'.data = arr.data
       /\ (ret'.op = "dynarr_create" /\ ret'.path = "ok" /\ ret'.args[2] = 0)
          => arr'.capacity = 8 /\ arr'.count = 0
       /\ (ret'.op = "dynarr_push" /\ ret'.ptr # NULLP /\ arr.count = 8
           /\ arr.capacity = 8)
          => arr'.capacity = 16 /\ arr'.count = 9]_vars

\* a pop has halved the capacity 16 to the floor 8
C7_Witness ==
    ret.op = "dynarr_pop" /\ ret.path = "shrunk" /\ arr.capacity = 8 /\ arr.count = 3

\* C8: dynarr_clear sets count to zero and leaves capacity, element size and the
\* buffer as they were: nothing is released or reallocated.
C8_ClearFrame ==
    [][ret'.op = "dynarr_clear"
         => /\ arr'.count = 0
            /\ arr'.capacity = arr.capacity
            /\ arr'.element_size = arr.element_size
            /\ arr'.data = arr.data
            /\ heap' = heap
            /\ ret'.reallocs = 0]_vars

\* a grown array has been cleared
C8_Witness ==
    ret.op = "dynarr_clear" /\ arr.data # 0 /\ arr.capacity = 16 /\ arr.count = 0

\* C9: when realloc refuses the growth inside arena_alloc, the call returns NULL
\* after one attempt and offset, size, region and tag are as before, so the
\* arena is still valid.
C9_GrowRefusedKeepsArena ==
    [][(LiveArena /\ ret'.op = "arena_alloc" /\ ret'.path = "grow_refused")
         => /\ ret'.ptr = NULLP
            /\ ret'.reallocs = 1
            /\ arena' = arena
            /\ heap' = heap
            /\ IsValid(arena')
            /\ IsLive(heap', arena'.memory)]_vars

\* a growth was refused on an arena that had already issued bytes
C9_Witness ==
    LiveArena /\ ret.op = "arena_alloc" /\ ret.path = "grow_refused"
    /\ arena.offset > 0 /\ IsValid(arena)

\* C10: on a live arena str_concat of two readable strings, when its allocation
\* is not refused, yields length len(a) + len(b) and a's bytes, then b's bytes,
\* then the terminator.
C10_ConcatBytes ==
    (ret.op = "str_concat" /\ LiveArena /\ ret.args[5] /\ ret.path # "nomem")
        => /\ ret.len = ret.args[1].len + ret.args[2].len
           /\ ret.ptr # NULLP
           /\ ReadBytes(heap, ret.ptr, ret.len + 1) = ret.args[3] \o ret.args[4] \o <<0>>

\* C11: on a live arena str_substr of a readable string s, when its allocation is
\* not refused, returns the zero string if start >= len(s), and otherwise a
\* string of exactly min(length, len(s) - start) bytes equal to the bytes of s
\* from start on.
C11_SubstrClamped ==
    (ret.op = "str_substr" /\ LiveArena /\ ret.args[5] /\ ret.path # "nomem")
        => LET s == ret.args[1]
               start == ret.args[2]
               length == ret.args[3]
           IN IF start >= s.len
              THEN ret.ptr = NULLP /\ ret.len = 0
              ELSE /\ ret.ptr # NULLP
                   /\ ret.len = Min(length, s.len - start)
                   /\ ReadBytes(heap, ret.ptr, ret.len)
                        = SubSeq(ret.args[4], start + 1, start + ret.len)

\* s precedes t, two byte strings of one length, in byte-wise lexicographic order
LexLess(s, t) ==
    \E i \in 1..Len(s) : s[i] < t[i] /\ \A j \in 1..(i - 1) : s[j] = t[j]

\* C12: str_cmp is the length-then-bytes order: str_cmp(x, x) = 0; the signs of
\* str_cmp(a, b) and str_cmp(b, a) are opposite; the result is 0 exactly for
\* equal length and bytes; a shorter string precedes a longer one, strings of one
\* length are ordered by their bytes; and the order is transitive.
C12_CmpTotalOrder ==
    LET Out(a, b) == StrCmpOutcomes(heap, a, b)
        Bytes(a) == ReadBytes(heap, a.data, a.len)
        Sgn(r) == IF r < 0 THEN -1 ELSE IF r > 0 THEN 1 ELSE 0
    IN /\ ret.op = "str_cmp" => ret.len \in Out(ret.args[1], ret.args[2])
       /\ \A x \in Operands : Out(x, x) = {0}
       /\ \A a \in Operands, b \in Operands :
             \A r \in Out(a, b) :
                /\ \A q \in Out(b, a) : Sgn(r) = 0 - Sgn(q)
                /\ (r = 0) = (a.len = b.len /\ Bytes(a) = Bytes(b))
                /\ a.len < b.len => r < 0
                /\ (a.len = b.len /\ LexLess(Bytes(a), Bytes(b))) => r < 0
       /\ \A a \in Operands, b \in Operands, c \in Operands :
             ((\E r \in Out(a, b) : r < 0) /\ (\E q \in Out(b, c) : q < 0))
                => \A t \in Out(a, c) : t < 0

\* two strings of one length were compared and the bytes decided, with a third
\* string of that length after them
C12_Witness ==
    /\ ret.op = "str_cmp"
    /\ ret.len < 0
    /\ ret.args = <<strs[1], strs[2]>>
    /\ strs[1].len = MaxCmpLen /\ strs[2].len = MaxCmpLen /\ strs[3].len = MaxCmpLen
    /\ \E q \in StrCmpOutcomes(heap, strs[2], strs[3]) : q < 0

\* C13: on a live arena str_copy of a non-null pointer to length readable bytes,
\* when its allocation is not refused, returns a string of that length holding
\* those bytes and then the terminator, inside the issued region; and every
\* string a successful str_create, str_copy, str_concat or str_substr returns has
\* a non-null pointer and the terminator at index len, inside the issued region.
C13_TerminatorSafe ==
    /\ (ret.op = "str_copy" /\ LiveArena /\ ret.args[1] # NULLP /\ ret.args[4]
        /\ ret.path # "nomem")
          => /\ ret.ptr # NULLP
             /\ ret.len = ret.args[2]
             /\ ReadBytes(heap, ret.ptr, ret.len + 1) = ret.args[3] \o <<0>>
    /\ (ret.op \in {"str_create", "str_copy", "str_concat", "str_substr"}
        /\ LiveArena /\ ret.path = "ok")
          => /\ ret.ptr # NULLP
             /\ ret.ptr.blk = arena.memory
             /\ ret.ptr.off + ret.len < arena.offset
             /\ ReadBytes(heap, Ptr(ret.ptr.blk, ret.ptr.off + ret.len), 1) = <<0>>

\* C14: str_create, str_copy, str_concat and str_substr on a handle that is NULL
\* or was destroyed return the zero string and change neither the arena record
\* nor the heap.
C14_DeadArenaZeroString ==
    [][(ret'.op \in {"str_create", "str_copy", "str_concat", "str_substr"}
        /\ NotAlive)
         => /\ ret'.ptr = NULLP
            /\ ret'.len = 0
            /\ arena' = arena
            /\ heap' = heap]_vars

\* C15: a pop made right after a push that doubled the capacity attempts no
\* reallocation and keeps the capacity, and a push made right after a pop that
\* halved the capacity attempts none and keeps it.
C15_NoOscillation ==
    [][/\ (ret.op = "dynarr_push" /\ ret.path = "grown" /\ ret'.op = "dynarr_pop")
          => /\ ret'.path = "kept"
             /\ ret'.reallocs = 0
             /\ arr'.capacity = arr.capacity
             /\ arr'.data = arr.data
       /\ (ret.op = "dynarr_pop" /\ ret.path = "shrunk" /\ ret'.op = "dynarr_push")
          => /\ ret'.path = "fits"
             /\ ret'.reallocs = 0
             /\ arr'.capacity = arr.capacity
             /\ arr'.data = arr.data]_vars

\* a pop was made right after the push that doubled the capacity 8 to 16
C15_Witness ==
    /\ ret.op = "dynarr_pop"
    /\ ret.prev = "grown"
    /\ ret.path = "kept"
    /\ arr.data # 0
    /\ arr.capacity = 16
    /\ arr.count = 8

\* C16: when the allocation made by a successful str_concat, str_substr or
\* str_copy on a live arena relocates the region its readable operands live in,
\* the operands are still in live storage when they are read, and the result
\* holds the bytes they held.
C16_NoStaleSourceRead ==
    [][(LiveArena /\ ret'.path = "ok" /\ arena'.memory # arena.memory)
         => /\ (ret'.op = "str_concat" /\ ret'.args[5])
                 => /\ IsLive(heap', ret'.args[1].data.blk)
                    /\ IsLive(heap', ret'.args[2].data.blk)
                    /\ ReadBytes(heap', ret'.ptr, ret'.len)
                         = ret'.args[3] \o ret'.args[4]
            /\ (ret'.op = "str_substr" /\ ret'.args[5])
                 => /\ IsLive(heap', ret'.args[1].data.blk)
                    /\ ReadBytes(heap', ret'.ptr, ret'.len)
                         = SubSeq(ret'.args[4], ret'.args[2] + 1,
                                  ret'.args[2] + ret'.len)
            /\ (ret'.op = "str_copy" /\ ret'.args[4])
                 => /\ IsLive(heap', ret'.args[1].blk)
                    /\ ReadBytes(heap', ret'.ptr, ret'.len) = ret'.args[3]]_vars

\* n rounded up to the alignment, as a number
RoundedUp(n) == ((n + MaxAlign - 1) \div MaxAlign) * MaxAlign

\* C17: a successful arena_alloc on a live arena returns the position of the old
\* offset and advances offset by the requested size rounded up to the alignment;
\* it grows the region exactly when offset + rounded size exceeds size, to
\* 2 * size if that suffices and to offset + rounded size otherwise; when the
\* request fits, size and region are unchanged.
C17_GrowthPolicy ==
    [][(LiveArena /\ ret'.op = "arena_alloc" /\ ret'.ptr # NULLP)
         => LET need == arena.offset + RoundedUp(ret'.args[1]) IN
            /\ ret'.ptr = Ptr(arena'.memory, arena.offset)
            /\ arena'.offset = need
            /\ IF need > arena.size
               THEN /\ ret'.reallocs = 1
                    /\ arena'.size = (IF 2 * arena.size >= need THEN 2 * arena.size
                                      ELSE need)
               ELSE /\ ret'.reallocs = 0
                    /\ arena'.size = arena.size
                    /\ arena'.memory = arena.memory
                    /\ heap' = heap]_vars

\* the byte ranges [a1, a1 + n1) and [a2, a2 + n2) have no byte in common
Disjoint(a1, n1, a2, n2) == n1 = 0 \/ n2 = 0 \/ a1 + n1 <= a2 \/ a2 + n2 <= a1

\* C18: on a live arena the range [start, start + requested size) a successful
\* arena_alloc returns lies inside [0, size) of the region as it is after the
\* call, and is disjoint from the range the successful arena_alloc before it
\* returned.
C18_IssuedRangesDisjoint ==
    [][(LiveArena /\ ret'.op = "arena_alloc" /\ ret'.ptr # NULLP)
         => /\ ret'.ptr.off + ret'.args[1] <= arena'.size
            /\ (ret.op = "arena_alloc" /\ ret.ptr # NULLP)
                 => Disjoint(ret.ptr.off, ret.args[1], ret'.ptr.off, ret'.args[1])]_vars

\* C19: a successful arena_alloc(h, n) on a live arena provides n bytes: offset
\* advances by at least n and the n bytes from the old offset on lie inside the
\* region, for every n up to the maximum size value.
C19_AllocProvidesBytes ==
    [][(LiveArena /\ ret'.op = "arena_alloc" /\ ret'.ptr # NULLP)
         => /\ arena'.offset >= arena.offset + ret'.args[1]
            /\ arena.offset + ret'.args[1] <= arena'.size
            /\ IsLive(heap', arena'.memory)
            /\ heap'[arena'.memory].size = arena'.size]_vars

\* C20: a successful str_substr on a live arena of a readable string s with
\* start < len(s) copies at most len(s) - start bytes of s, for every length up
\* to the maximum size value.
C20_SubstrReadsWithinSource ==
    (ret.op = "str_substr" /\ LiveArena /\ ret.args[5] /\ ret.path = "ok"
     /\ ret.args[2] < ret.args[1].len)
        => ret.len <= ret.args[1].len - ret.args[2]

\* C21: when a call to create, push, pop or clear on the generic array is
\* repeated on the typed array of the same element size, with realloc answering
\* alike, both arrays have the same count and capacity afterwards, and both
\* pushes return NULL or both return the slot of the same element index, the
\* old count.
C21_TypedMatchesGeneric ==
    [][(ret'.op \in {"dynarr_create_T", "dynarr_push_T", "dynarr_pop_T",
                     "dynarr_clear_T"})
         => /\ tarr'.count = arr'.count
            /\ tarr'.capacity = arr'.capacity
            /\ ret'.op = "dynarr_push_T"
                 => /\ (ret'.ptr = NULLP) = (ret.ptr = NULLP)
                    /\ ret'.ptr.off = ret.ptr.off
                    /\ ret'.ptr # NULLP
                         => /\ ret'.ptr.blk = tarr'.data
                            /\ ret.ptr.blk = arr'.data
                            /\ tarr'.count = tarr.count + 1
                            /\ ret'.ptr.off = (tarr.count * SizeofT) % SIZE_MOD]_vars

\* both arrays, created with capacity 12, have shrunk to 6 on the pop to count 2
C21_Witness ==
    /\ ret.op = "dynarr_pop_T"
    /\ ret.path = "shrunk"
    /\ Created
    /\ tarr.capacity = 6 /\ arr.capacity = 6
    /\ tarr.count = 2 /\ arr.count = 2

====
